---- MODULE Spec2Model ----
(***************************************************************************)
(* ExecutiveModel: a React Flow canvas (src/src/App.jsx) of spreadsheet    *)
(* model nodes (src/src/nodes/ModelNode.jsx) whose ports are read from     *)
(* dropped workbooks (src/unnamed/part_000, imported by ModelNode.jsx as   *)
(* ../utils/parseExcel).                                                   *)
(*                                                                         *)
(* JavaScript values are encoded as follows.                               *)
(*   - a string is a TLA+ string, template literals are \o;                *)
(*   - `null`/`undefined` is Null (the empty tuple) and a present value v  *)
(*     is Some(v), so that `x | null` fields stay comparable;              *)
(*   - an array whose order is observable is a sequence.                   *)
(***************************************************************************)
EXTENDS Integers, Sequences, FiniteSets, TLC

VARIABLES nodes, edges, ui, pending, drops, hist, call, lastDrop

vars == <<nodes, edges, ui, pending, drops, hist, call, lastDrop>>

Null == <<>>
Some(v) == <<v>>

Range(s) == {s[i] : i \in 1..Len(s)}

(***************************************************************************)
(* Array.prototype.join                                                    *)
(***************************************************************************)
RECURSIVE Join(_, _)
Join(s, sep) ==
  IF Len(s) = 0 THEN ""
  ELSE IF Len(s) = 1 THEN s[1]
  ELSE s[1] \o sep \o Join(Tail(s), sep)

(***************************************************************************)
(* Array.prototype.filter, for the predicate "is a member of keep"         *)
(***************************************************************************)
RECURSIVE FilterIn(_, _)
FilterIn(s, keep) ==
  IF Len(s) = 0 THEN <<>>
  ELSE IF s[1] \in keep THEN <<s[1]>> \o FilterIn(Tail(s), keep)
  ELSE FilterIn(Tail(s), keep)

(***************************************************************************)
(*                     utils/parseExcel (src/unnamed/part_000)             *)
(***************************************************************************)

REQUIRED_SHEETS == <<"INPUTS", "OUTPUTS">>

(* A cell's text is a sequence of pieces; the piece " " is white space and *)
(* every other piece is text with no white space at either end.            *)
IsSpace(piece) == piece = " "

RECURSIVE TrimStart(_)
TrimStart(cell) ==
  IF Len(cell) = 0 THEN cell
  ELSE IF IsSpace(cell[1]) THEN TrimStart(Tail(cell))
  ELSE cell

RECURSIVE TrimEnd(_)
TrimEnd(cell) ==
  IF Len(cell) = 0 THEN cell
  ELSE IF IsSpace(cell[Len(cell)]) THEN TrimEnd(SubSeq(cell, 1, Len(cell) - 1))
  ELSE cell

(* String.prototype.trim, returning the trimmed text as one string *)
Trim(cell) == Join(TrimEnd(TrimStart(cell)), "")

(* row['variable_name'] ?? '' : a sheet without that column yields '' *)
VariableNameCell(sheet, r) ==
  IF sheet.hasColumn THEN sheet.rows[r] ELSE <<>>

RECURSIVE NonEmpty(_)
NonEmpty(strs) ==
  IF Len(strs) = 0 THEN <<>>
  ELSE IF strs[1] = "" THEN NonEmpty(Tail(strs))
  ELSE <<strs[1]>> \o NonEmpty(Tail(strs))

(* A variant of readVariableNames without the trim() *)
readVariableNamesNoTrim(sheet) ==
  NonEmpty([r \in 1..Len(sheet.rows) |-> Join(VariableNameCell(sheet, r), "")])

readVariableNames(sheet) ==
  NonEmpty([r \in 1..Len(sheet.rows) |-> Trim(VariableNameCell(sheet, r))])

(* XLSX.read: a workbook, or an exception carrying a message *)
XLSXRead(file) ==
  IF file.bytes.kind = "workbook"
  THEN [threw |-> FALSE, workbook |-> file.bytes.workbook, message |-> ""]
  ELSE [threw |-> TRUE, workbook |-> Null, message |-> file.bytes.message]

(* A variant of MissingSheetsMessage that does not inflect "sheet" *)
MissingSheetsMessageLiteral(missing, found) ==
  LET missingList == Join(missing, " and ")
      foundList == IF Len(found) # 0 THEN Join(found, ", ") ELSE "(no sheets found)"
  IN "Required sheet(s) not found: " \o missingList \o ". "
       \o "Sheets in this file: " \o foundList \o "."

(* The error text of the missing-sheet branch *)
MissingSheetsMessage(missing, found) ==
  LET missingList == Join(missing, " and ")
      foundList == IF Len(found) # 0 THEN Join(found, ", ") ELSE "(no sheets found)"
  IN "Required sheet" \o (IF Len(missing) > 1 THEN "s" ELSE "")
       \o " not found: " \o missingList \o ". "
       \o "Sheets in this file: " \o foundList \o "."

(* A variant of OnLoadTry whose missing-sheet branch still reads the       *)
(* required sheets that are there.                                         *)
OnLoadTryPartial(file, workbook) ==
  LET found == workbook.SheetNames
      missing == FilterIn(REQUIRED_SHEETS, Range(REQUIRED_SHEETS) \ Range(found))
      read(name) == IF name \in Range(found)
                    THEN readVariableNames(workbook.Sheets[name]) ELSE <<>>
  IN << [filename |-> file.name, inputs |-> read("INPUTS"), outputs |-> read("OUTPUTS"),
         error |-> IF Len(missing) > 0
                   THEN Some(MissingSheetsMessage(missing, found)) ELSE Null] >>

(* The body of the try block of reader.onload, given the workbook: the     *)
(* sequence of values passed to resolve(), in call order.                  *)
OnLoadTry(file, workbook) ==
  LET found == workbook.SheetNames
      missing == FilterIn(REQUIRED_SHEETS, Range(REQUIRED_SHEETS) \ Range(found))
  IN IF Len(missing) > 0
     THEN << [filename |-> file.name, inputs |-> <<>>, outputs |-> <<>>,
              error |-> Some(MissingSheetsMessage(missing, found))] >>
     ELSE << [filename |-> file.name,
              inputs |-> readVariableNames(workbook.Sheets["INPUTS"]),
              outputs |-> readVariableNames(workbook.Sheets["OUTPUTS"]),
              error |-> Null] >>

(* A variant of ReaderOnLoad with no catch: the exception of XLSX.read     *)
(* leaves the handler and resolve() is never called.                       *)
ReaderOnLoadNoCatch(file) ==
  LET wb == XLSXRead(file)
  IN IF wb.threw
     THEN [resolves |-> <<>>, threw |-> TRUE]
     ELSE [resolves |-> OnLoadTry(file, wb.workbook), threw |-> FALSE]

(* reader.onload: try { ... } catch (err) { resolve(...) }.  The outcome   *)
(* is the resolve() calls made and whether an exception left the handler.  *)
ReaderOnLoad(file) ==
  LET wb == XLSXRead(file)
  IN IF wb.threw
     THEN [resolves |-> << [filename |-> file.name, inputs |-> <<>>, outputs |-> <<>>,
                            error |-> Some("Could not parse file: " \o wb.message)] >>,
           threw |-> FALSE]
     ELSE [resolves |-> OnLoadTry(file, wb.workbook), threw |-> FALSE]

(* reader.onerror *)
ReaderOnError(file) ==
  [resolves |-> << [filename |-> file.name, inputs |-> <<>>, outputs |-> <<>>,
                    error |-> Some("Failed to read the file from disk.")] >>,
   threw |-> FALSE]

(* FileReader fires exactly one of load / error for a read *)
ReaderEvents == {"load", "error"}

ReaderFire(file, event) ==
  IF event = "load" THEN ReaderOnLoad(file) ELSE ReaderOnError(file)

(* The promise returned by parseExcelFile once the reader event has run:   *)
(* the first resolve() settles it, later ones are ignored, and with no     *)
(* resolve() it stays pending.  No reject is ever wired.                   *)
parseExcelFile(file, event) ==
  LET out == ReaderFire(file, event)
  IN [state |-> IF Len(out.resolves) > 0 THEN "fulfilled" ELSE "pending",
      value |-> IF Len(out.resolves) > 0 THEN Some(out.resolves[1]) ELSE Null,
      resolveCalls |-> Len(out.resolves),
      threw |-> out.threw]

(***************************************************************************)
(* Files.  A File has a name and bytes; `ext` is the part of the name      *)
(* after its last dot (empty when there is none), kept beside the name     *)
(* so that the regular expression of onDrop can be evaluated.              *)
(***************************************************************************)
FileNamed(stem, ext, bytes) ==
  [name |-> IF ext = "" THEN stem ELSE stem \o "." \o ext, ext |-> ext, bytes |-> bytes]

Sheet(hasColumn, rows) == [hasColumn |-> hasColumn, rows |-> rows]

Workbook(names, sheets) ==
  [kind |-> "workbook", workbook |-> [SheetNames |-> names, Sheets |-> sheets]]

Garbage(message) == [kind |-> "garbage", message |-> message]

(* String.prototype.toLowerCase on the extensions that occur *)
ToLower(ext) ==
  CASE ext = "XLSX" -> "xlsx"
    [] ext = "Xlsx" -> "xlsx"
    [] ext = "XLS" -> "xls"
    [] ext = "TXT" -> "txt"
    [] OTHER -> ext

(* /\.(xlsx|xls)$/i.test(f.name) *)
IsExcelName(f) == ToLower(f.ext) \in {"xlsx", "xls"}

(* Array.prototype.find *)
RECURSIVE Find(_)
Find(files) ==
  IF Len(files) = 0 THEN Null
  ELSE IF IsExcelName(files[1]) THEN Some(files[1])
  ELSE Find(Tail(files))

(***************************************************************************)
(*                          App (src/src/App.jsx)                          *)
(***************************************************************************)

NodeData(label, order, inputs, outputs) ==
  [label |-> label, order |-> order, inputs |-> inputs, outputs |-> outputs]

(* SAMPLE_NODES, keyed by node id; `data.error` is absent (undefined) *)
SAMPLE_NODES ==
  [id \in {"node-1", "node-2", "node-3"} |->
     CASE id = "node-1" ->
            NodeData("Revenue Model.xlsx", Some(1),
                     <<"tax_rate", "discount_rate">>,
                     <<"gross_revenue", "net_revenue", "ebitda">>)
       [] id = "node-2" ->
            NodeData("Cost Model.xlsx", Some(2),
                     <<"gross_revenue", "headcount">>,
                     <<"cogs", "opex", "gross_profit">>)
       [] id = "node-3" ->
            NodeData("Headcount Model.xlsx", Null,
                     <<>>,
                     <<"headcount">>)]

Edge(id, source, sourceHandle, target, targetHandle) ==
  [id |-> id, source |-> source, sourceHandle |-> sourceHandle,
   target |-> target, targetHandle |-> targetHandle]

(* SAMPLE_EDGES; the edge array is kept as a set: addEdge never adds a     *)
(* connection twice and nothing reads the array's order.                   *)
SAMPLE_EDGES ==
  { Edge("e1-2-revenue", "node-1", "out-gross_revenue", "node-2", "in-gross_revenue"),
    Edge("e3-2-headcount", "node-3", "out-headcount", "node-2", "in-headcount") }

(* The handle ids ModelNode renders for a node's ports *)
InHandle(name) == "in-" \o name
OutHandle(name) == "out-" \o name

(* @xyflow getEdgeId *)
getEdgeId(params) ==
  "xy-edge__" \o params.source \o params.sourceHandle
    \o "-" \o params.target \o params.targetHandle

(* @xyflow connectionExists *)
connectionExists(edge, eds) ==
  \E el \in eds :
    /\ el.source = edge.source
    /\ el.target = edge.target
    /\ el.sourceHandle = edge.sourceHandle
    /\ el.targetHandle = edge.targetHandle

(* A variant of addEdge that first drops the edges into the target handle *)
addEdgeReplacing(params, eds) ==
  LET edge == Edge(getEdgeId(params), params.source, params.sourceHandle,
                   params.target, params.targetHandle)
      kept == {el \in eds : ~(el.target = edge.target /\ el.targetHandle = edge.targetHandle)}
  IN IF connectionExists(edge, eds) THEN eds ELSE kept \cup {edge}

(* @xyflow addEdge(edgeParams, edges), as onConnect calls it: the params   *)
(* of a connect gesture carry no id, and both node ids are set.            *)
addEdge(params, eds) ==
  LET edge == Edge(getEdgeId(params), params.source, params.sourceHandle,
                   params.target, params.targetHandle)
  IN IF connectionExists(edge, eds) THEN eds ELSE eds \cup {edge}

(* applyEdgeChanges with a change of type 'remove' (onEdgesChange) *)
removeEdgeById(id, eds) == {e \in eds : e.id # id}

(* The edges React Flow removes along with a deleted node *)
ConnectedEdges(id, eds) == {e \in eds : e.source = id \/ e.target = id}

(***************************************************************************)
(*                   ModelNode (src/src/nodes/ModelNode.jsx)               *)
(***************************************************************************)

(* const { ..., error } = data : undefined when the field is absent *)
DataError(data) == IF "error" \in DOMAIN data THEN data.error ELSE Null

(* { ...n.data, ...updates } *)
Spread(data, updates) ==
  [f \in DOMAIN data \cup DOMAIN updates |->
     IF f \in DOMAIN updates THEN updates[f] ELSE data[f]]

(* A variant of patchData that inserts the node when it is not there *)
patchDataUpsert(nds, id, updates) ==
  [n \in DOMAIN nds \cup {id} |->
     IF n = id
     THEN (IF n \in DOMAIN nds THEN Spread(nds[n], updates) ELSE updates)
     ELSE nds[n]]

(* A variant of patchData without the n.id === id test *)
patchDataAll(nds, id, updates) ==
  [n \in DOMAIN nds |-> Spread(nds[n], updates)]

(* patchData of the component of node `id`, applied to the node array *)
patchData(nds, id, updates) ==
  [n \in DOMAIN nds |-> IF n = id THEN Spread(nds[n], updates) ELSE nds[n]]

(* useState(false), useState(false), useRef(0) *)
InitialUi == [isDragOver |-> FALSE, isLoading |-> FALSE, dragDepth |-> 0]

(* A state setter of a component that is no longer mounted does nothing *)
SetUi(u, id, field, value) ==
  [n \in DOMAIN u |-> IF n = id THEN [u[n] EXCEPT ![field] = value] ELSE u[n]]

FILE_TYPE_ERROR == "Only .xlsx / .xls files are accepted."

(***************************************************************************)
(*                       Bounds and the inputs explored                    *)
(***************************************************************************)
MaxEdges == 3
MaxDrops == 1
MaxIngestDrops == 2
MaxSheets == 3
MaxDragDepth == 2

(* Workbooks dropped onto nodes *)
CostV2 ==
  FileNamed("Cost Model v2", "xlsx",
    Workbook(<<"INPUTS", "OUTPUTS">>,
      [n \in {"INPUTS", "OUTPUTS"} |->
         IF n = "INPUTS"
         THEN Sheet(TRUE, << <<" ", "gross_revenue", " ">>, <<" ">>, <<"fx_rate">>,
                             <<"fx_rate">> >>)
         ELSE Sheet(TRUE, << <<"cogs">>, <<>>, <<"margin">> >>)]))

NoOutputs ==
  FileNamed("Inputs Only", "XLSX",
    Workbook(<<"INPUTS">>,
      [n \in {"INPUTS"} |-> Sheet(TRUE, << <<"tax_rate">> >>)]))

Corrupt == FileNamed("Corrupt", "xls", Garbage("File is password-protected"))

Notes == FileNamed("notes", "txt", Garbage("Unsupported file"))

(* e.dataTransfer.files of the drops explored *)
DropPayloads == { <<CostV2>>, <<Notes, NoOutputs>>, <<Notes>> }

(* The port names connect gestures are explored on *)
ConnectOutputs == {"gross_revenue", "cogs", "headcount"}
ConnectInputs == {"tax_rate", "gross_revenue", "headcount", "fx_rate"}

(* The history of the last step, for stating what has just happened: the  *)
(* handler that ran, the node it ran on, the edge it was about, the edge   *)
(* set before an onConnect, and whether a removal undoes the connect that  *)
(* came right before it.                                                   *)
Hist(op, node, edge, before, undo) ==
  [op |-> op, node |-> node, edge |-> edge, before |-> before, undo |-> undo]

IdleCall == [phase |-> "idle", file |-> Null, promise |-> Null]

(* History: per node, the ingestion started by the latest drop on it *)
NoDrops == [n \in DOMAIN SAMPLE_NODES |-> Null]

Init ==
  /\ nodes = SAMPLE_NODES
  /\ edges = SAMPLE_EDGES
  /\ ui = [n \in DOMAIN SAMPLE_NODES |-> InitialUi]
  /\ pending = {}
  /\ drops = 0
  /\ hist = Hist("init", "", Null, {}, FALSE)
  /\ call = IdleCall
  /\ lastDrop = NoDrops

(***************************************************************************)
(* App.onConnect: a connect gesture from a rendered output handle to a     *)
(* rendered input handle.                                                  *)
(***************************************************************************)
onConnect(s, so, t, ti) ==
  LET params == [source |-> s, sourceHandle |-> OutHandle(so),
                 target |-> t, targetHandle |-> InHandle(ti)]
  IN /\ edges' = addEdge(params, edges)
     /\ Cardinality(edges') <= MaxEdges
     /\ hist' = Hist("onConnect", t,
                     Some(Edge(getEdgeId(params), params.source, params.sourceHandle,
                               params.target, params.targetHandle)),
                     edges, FALSE)
     /\ UNCHANGED <<nodes, ui, pending, drops, call, lastDrop>>

Connect ==
  \E s \in DOMAIN nodes, t \in DOMAIN nodes :
    \E so \in Range(nodes[s].outputs) \cap ConnectOutputs,
       ti \in Range(nodes[t].inputs) \cap ConnectInputs :
      onConnect(s, so, t, ti)

(* onEdgesChange with the removal of a selected edge *)
RemoveEdge ==
  \E e \in edges :
    /\ edges' = removeEdgeById(e.id, edges)
    /\ hist' = Hist("removeEdge", e.target, Some(e), {},
                    hist.op = "onConnect" /\ hist.edge = Some(e) /\ e \notin hist.before)
    /\ UNCHANGED <<nodes, ui, pending, drops, call, lastDrop>>

(* onNodesChange / onEdgesChange with the removal of a selected node: the  *)
(* node, its component and the edges connected to it go                    *)
DeleteNode ==
  \E id \in DOMAIN nodes :
    /\ nodes' = [n \in DOMAIN nodes \ {id} |-> nodes[n]]
    /\ edges' = edges \ ConnectedEdges(id, edges)
    /\ ui' = [n \in DOMAIN ui \ {id} |-> ui[n]]
    /\ hist' = Hist("deleteNode", id, Null, {}, FALSE)
    /\ UNCHANGED <<pending, drops, call, lastDrop>>

(***************************************************************************)
(* A variant of onDrop that raises the loading flag before it looks for    *)
(* an Excel file.                                                          *)
(***************************************************************************)
onDropLoadingFirst(id, files) ==
  LET file == Find(files)
      reset == [ui EXCEPT ![id] = [@ EXCEPT !.dragDepth = 0, !.isDragOver = FALSE]]
  IN /\ drops' = drops + 1
     /\ ui' = SetUi(reset, id, "isLoading", TRUE)
     /\ IF file = Null
        THEN /\ nodes' = patchData(nodes, id, [error |-> Some(FILE_TYPE_ERROR)])
             /\ pending' = pending
             /\ lastDrop' = lastDrop
             /\ hist' = Hist("onDropRejected", id, Null, {}, FALSE)
        ELSE /\ pending' = pending \cup {[seq |-> drops + 1, node |-> id, file |-> file[1]]}
             /\ nodes' = nodes
             /\ lastDrop' = [lastDrop EXCEPT
                               ![id] = Some([seq |-> drops + 1, node |-> id, file |-> file[1]])]
             /\ hist' = Hist("onDrop", id, Null, {}, FALSE)
     /\ UNCHANGED <<edges, call>>

(***************************************************************************)
(* ModelNode.onDrop up to its await (or its early return)                  *)
(***************************************************************************)
onDrop(id, files) ==
  LET file == Find(files)
      reset == [ui EXCEPT ![id] = [@ EXCEPT !.dragDepth = 0, !.isDragOver = FALSE]]
  IN /\ drops' = drops + 1
     /\ IF file = Null
        THEN /\ nodes' = patchData(nodes, id, [error |-> Some(FILE_TYPE_ERROR)])
             /\ ui' = reset
             /\ pending' = pending
             /\ lastDrop' = lastDrop
             /\ hist' = Hist("onDropRejected", id, Null, {}, FALSE)
        ELSE /\ ui' = SetUi(reset, id, "isLoading", TRUE)
             /\ pending' = pending \cup {[seq |-> drops + 1, node |-> id, file |-> file[1]]}
             /\ nodes' = nodes
             /\ lastDrop' = [lastDrop EXCEPT
                               ![id] = Some([seq |-> drops + 1, node |-> id, file |-> file[1]])]
             /\ hist' = Hist("onDrop", id, Null, {}, FALSE)
     /\ UNCHANGED <<edges, call>>

Drop ==
  /\ drops < MaxDrops
  /\ \E id \in DOMAIN nodes, files \in DropPayloads : onDrop(id, files)

(***************************************************************************)
(* A variant of onDropResume that, when the result carries an error,       *)
(* patches the error alone.                                                *)
(***************************************************************************)
onDropResumeKeepPorts(p, event) ==
  LET promise == parseExcelFile(p.file, event)
      result == promise.value[1]
  IN /\ promise.state = "fulfilled"
     /\ pending' = pending \ {p}
     /\ ui' = SetUi(ui, p.node, "isLoading", FALSE)
     /\ nodes' = patchData(nodes, p.node,
                   IF result.error # Null
                   THEN [error |-> result.error]
                   ELSE [label |-> result.filename, inputs |-> result.inputs,
                         outputs |-> result.outputs, error |-> result.error])
     /\ hist' = Hist(IF p.node \in DOMAIN nodes THEN "onDropResume" ELSE "lateResume",
                     p.node, Null, {}, FALSE)
     /\ UNCHANGED <<edges, drops, call, lastDrop>>

(***************************************************************************)
(* The rest of onDrop: the reader event fires, the promise settles and the *)
(* continuation after the await runs.                                      *)
(***************************************************************************)
onDropResume(p, event) ==
  LET promise == parseExcelFile(p.file, event)
      result == promise.value[1]
  IN /\ promise.state = "fulfilled"
     /\ pending' = pending \ {p}
     /\ ui' = SetUi(ui, p.node, "isLoading", FALSE)
     /\ nodes' = patchData(nodes, p.node,
                   [label |-> result.filename, inputs |-> result.inputs,
                    outputs |-> result.outputs, error |-> result.error])
     /\ hist' = Hist(IF p.node \in DOMAIN nodes THEN "onDropResume" ELSE "lateResume",
                     p.node, Null, {}, FALSE)
     /\ UNCHANGED <<edges, drops, call, lastDrop>>

Resume == \E p \in pending, event \in ReaderEvents : onDropResume(p, event)

(* The dismiss button of the error banner, rendered when error && !isLoading *)
Dismiss ==
  \E id \in DOMAIN nodes :
    /\ DataError(nodes[id]) # Null
    /\ ~ui[id].isLoading
    /\ nodes' = patchData(nodes, id, [error |-> Null])
    /\ hist' = Hist("dismiss", id, Null, {}, FALSE)
    /\ UNCHANGED <<edges, ui, pending, drops, call, lastDrop>>

Next == Connect \/ RemoveEdge \/ DeleteNode \/ Drop \/ Resume \/ Dismiss

Spec == Init /\ [][Next]_vars

(***************************************************************************)
(* The graph gestures alone (no file is dropped), and the ingestion alone  *)
(* (no edge gesture): the two halves of Next, explored with more drops.    *)
(***************************************************************************)
GraphNext == Connect \/ RemoveEdge \/ DeleteNode

GraphSpec == Init /\ [][GraphNext]_vars

IngestDrop ==
  /\ drops < MaxIngestDrops
  /\ \E id \in DOMAIN nodes, files \in DropPayloads : onDrop(id, files)

IngestNext == IngestDrop \/ Resume \/ DeleteNode \/ Dismiss

IngestSpec == Init /\ [][IngestNext]_vars

(***************************************************************************)
(* The drag events of a node's drop zone.  dragenter and dragleave bubble  *)
(* from child elements, in any order and number: the counter is explored   *)
(* between -MaxDragDepth and MaxDragDepth.  The handlers touch the         *)
(* component's own state alone, so they are explored with the drops, apart *)
(* from the edge gestures.                                                 *)
(***************************************************************************)
onDragEnter(id) ==
  LET depth == ui[id].dragDepth + 1
  IN /\ depth <= MaxDragDepth
     /\ ui' = [ui EXCEPT ![id] = [@ EXCEPT !.dragDepth = depth,
                                           !.isDragOver = IF depth = 1 THEN TRUE ELSE @]]
     /\ hist' = Hist("onDragEnter", id, Null, {}, FALSE)
     /\ UNCHANGED <<nodes, edges, pending, drops, call, lastDrop>>

(* A variant of onDragLeave that clears the highlight on every dragleave *)
onDragLeaveAlwaysClear(id) ==
  LET depth == ui[id].dragDepth - 1
  IN /\ depth >= -MaxDragDepth
     /\ ui' = [ui EXCEPT ![id] = [@ EXCEPT !.dragDepth = depth, !.isDragOver = FALSE]]
     /\ hist' = Hist("onDragLeave", id, Null, {}, FALSE)
     /\ UNCHANGED <<nodes, edges, pending, drops, call, lastDrop>>

onDragLeave(id) ==
  LET depth == ui[id].dragDepth - 1
  IN /\ depth >= -MaxDragDepth
     /\ ui' = [ui EXCEPT ![id] = [@ EXCEPT !.dragDepth = depth,
                                           !.isDragOver = IF depth = 0 THEN FALSE ELSE @]]
     /\ hist' = Hist("onDragLeave", id, Null, {}, FALSE)
     /\ UNCHANGED <<nodes, edges, pending, drops, call, lastDrop>>

(* The nodes the drag events are explored on (drops land on every node) *)
DragNodes == {"node-1", "node-2"}

DragEnter == \E id \in DOMAIN ui \cap DragNodes : onDragEnter(id)

DragLeave == \E id \in DOMAIN ui \cap DragNodes : onDragLeave(id)

DragNext == DragEnter \/ DragLeave \/ Drop \/ Resume

DragSpec == Init /\ [][DragNext]_vars

(***************************************************************************)
(* parseExcelFile on its own: one call per behaviour, on a file drawn from *)
(* the workbooks of at most MaxSheets sheets and the unparsable files.     *)
(***************************************************************************)
SheetNameChoices == {"INPUTS", "OUTPUTS", "Notes", "inputs"}

(* Sheet name lists: no workbook holds two sheets of the same name *)
SheetNameSeqs ==
  UNION { {q \in [1..k -> SheetNameChoices] :
             \A i, j \in 1..k : i # j => q[i] # q[j]} : k \in 0..MaxSheets }

SheetChoices ==
  { Sheet(TRUE, << <<"rate">>, <<" ", "cost", " ">>, <<" ">>, <<"rate">> >>),
    Sheet(TRUE, <<>>),
    Sheet(FALSE, << <<"rate">> >>) }

ParseFiles ==
  { FileNamed("Model", ext, Workbook(names,
        [n \in Range(names) |->
           IF n = "INPUTS" THEN si ELSE IF n = "OUTPUTS" THEN so ELSE Sheet(TRUE, <<>>)])) :
      ext \in {"xlsx"}, names \in SheetNameSeqs, si \in SheetChoices, so \in SheetChoices }
  \cup { Corrupt, Notes }

ParseInit ==
  /\ nodes = SAMPLE_NODES
  /\ edges = SAMPLE_EDGES
  /\ ui = [n \in DOMAIN SAMPLE_NODES |-> InitialUi]
  /\ pending = {}
  /\ drops = 0
  /\ hist = Hist("init", "", Null, {}, FALSE)
  /\ lastDrop = NoDrops
  /\ \E f \in ParseFiles : call = [phase |-> "reading", file |-> Some(f), promise |-> Null]

(* The reader's event fires and its handler runs *)
ReaderFires(event) ==
  /\ call.phase = "reading"
  /\ call' = [phase |-> event, file |-> call.file,
              promise |-> Some(parseExcelFile(call.file[1], event))]
  /\ UNCHANGED <<nodes, edges, ui, pending, drops, hist, lastDrop>>

ParseNext == \E event \in ReaderEvents : ReaderFires(event)

ParseSpec == ParseInit /\ [][ParseNext]_vars

(***************************************************************************)
(* The Order Engine of spec.md section 4.3, which no source file           *)
(* implements: the reference the rank claims are stated against.           *)
(***************************************************************************)

(* The nodes reachable from S along edges, S included *)
RECURSIVE Downstream(_, _)
Downstream(S, eds) ==
  LET step == S \cup {e.target : e \in {x \in eds : x.source \in S}}
  IN IF step = S THEN S ELSE Downstream(step, eds)

(* Step 1: the nodes in error and their transitive dependents *)
DegradedNodes(nds, eds) ==
  Downstream({n \in DOMAIN nds : DataError(nds[n]) # Null}, eds)

(* Steps 2-4: layer k holds the remaining nodes with no incoming edge from *)
(* a remaining node; the result is the set of <<node, rank>> pairs.        *)
RECURSIVE KahnLayers(_, _, _)
KahnLayers(remaining, eds, k) ==
  LET layer == {n \in remaining :
                  ~\E e \in eds : e.target = n /\ e.source \in remaining}
  IN IF layer = {} THEN {}
     ELSE {<<n, k>> : n \in layer} \cup KahnLayers(remaining \ layer, eds, k + 1)

Ranked(n) == [kind |-> "Ranked", n |-> n]
Unorderable(why) == [kind |-> why, n |-> 0]

computeRanks(nds, eds) ==
  LET degraded == DegradedNodes(nds, eds)
      layers == KahnLayers(DOMAIN nds \ degraded, eds, 0)
  IN [n \in DOMAIN nds |->
        IF n \in degraded THEN Unorderable("DegradedInput")
        ELSE IF \E pr \in layers : pr[1] = n
        THEN Ranked((CHOOSE pr \in layers : pr[1] = n)[2])
        ELSE Unorderable("Cyclic")]

(* The order badge that shows a RankResult: a number, or no badge *)
Badge(r) == IF r.kind = "Ranked" THEN Some(r.n) ELSE Null

(* The nodes on a cycle of the graph *)
OnCycle(eds) ==
  {e.source : e \in {x \in eds : x.source \in Downstream({x.target}, eds)}}

HasCycle(eds) == OnCycle(eds) # {}

(* The nodes with a path to a node of T, T included *)
RECURSIVE Upstream(_, _)
Upstream(T, eds) ==
  LET step == T \cup {e.source : e \in {x \in eds : x.target \in T}}
  IN IF step = T THEN T ELSE Upstream(step, eds)

Sources(n, eds) == {e.source : e \in {x \in eds : x.target = n}}

SetMax(S) == CHOOSE m \in S : \A x \in S : x <= m

NoneDegraded(nds) == \A n \in DOMAIN nds : DataError(nds[n]) = Null

IsGraphMutation == hist.op \in {"onConnect", "removeEdge", "deleteNode", "onDropResume"}

(***************************************************************************)
(*                                 Claims                                  *)
(***************************************************************************)

(* C1: no two edges of the edge set share a target port (target node and   *)
(* target input handle): a connect gesture onto a connected input port     *)
(* removes the edge that was there.                                        *)
C1_SingleIncomingEdge ==
  \A e1, e2 \in edges :
    (e1.target = e2.target /\ e1.targetHandle = e2.targetHandle) => e1 = e2

(* C2: every edge endpoint names a port that exists on the node it refers  *)
(* to: a re-ingestion that replaces a node's ports removes the edges whose *)
(* source output or target input is no longer among them.                  *)
C2_EdgesNamePorts ==
  \A e \in edges :
    /\ e.source \in DOMAIN nodes
    /\ e.target \in DOMAIN nodes
    /\ e.sourceHandle \in {OutHandle(x) : x \in Range(nodes[e.source].outputs)}
    /\ e.targetHandle \in {InHandle(x) : x \in Range(nodes[e.target].inputs)}

(* The step is the end of the ingestion p on a node that is in the graph   *)
(* and has ports, and it leaves the node with an error.                    *)
ErrorOnLoadedNode(p) ==
  /\ p \in pending
  /\ pending' = pending \ {p}
  /\ p.node \in DOMAIN nodes
  /\ nodes[p.node].inputs # <<>> \/ nodes[p.node].outputs # <<>>
  /\ p.node \in DOMAIN nodes'
  /\ DataError(nodes'[p.node]) # Null

(* C3, as claimed: an ingestion on a loaded node that ends in an error     *)
(* leaves the node in the graph with its inputs and outputs unchanged;     *)
(* only its error changes.                                                 *)
C3_ErrorKeepsPorts ==
  [][\A p \in pending :
       ErrorOnLoadedNode(p) =>
         /\ nodes'[p.node].inputs = nodes[p.node].inputs
         /\ nodes'[p.node].outputs = nodes[p.node].outputs
         /\ nodes'[p.node].label = nodes[p.node].label]_vars

(* C3, amended: an ingestion on a loaded node that ends in an error leaves *)
(* the node in the graph with the dropped file's name as its label, no     *)
(* inputs and no outputs; its order, the other nodes and the edges are     *)
(* unchanged.                                                              *)
C3_ErrorClearsPorts ==
  [][\A p \in pending :
       ErrorOnLoadedNode(p) =>
         /\ DOMAIN nodes' = DOMAIN nodes
         /\ nodes'[p.node].inputs = <<>>
         /\ nodes'[p.node].outputs = <<>>
         /\ nodes'[p.node].label = p.file.name
         /\ nodes'[p.node].order = nodes[p.node].order
         /\ \A n \in DOMAIN nodes \ {p.node} : nodes'[n] = nodes[n]
         /\ edges' = edges]_vars

(* C3 witness: the first drop, on a sample node, has ended in an error *)
C3_Witness ==
  /\ hist.op = "onDropResume"
  /\ drops = 1
  /\ hist.node \in DOMAIN nodes
  /\ DataError(nodes[hist.node]) # Null
  /\ nodes[hist.node].inputs = <<>>
  /\ nodes[hist.node].outputs = <<>>

(* C4: after every graph mutation each node's order badge is the rank the  *)
(* Order Engine computes for the current graph.                            *)
C4_RanksUpToDate ==
  IsGraphMutation =>
    \A n \in DOMAIN nodes : nodes[n].order = Badge(computeRanks(nodes, edges)[n])

(* C5: in an acyclic graph of non-degraded nodes every edge goes to a      *)
(* higher rank and the ranks are minimal: rank 0 with no incoming edge,    *)
(* else 1 + the maximum rank of the direct sources.                        *)
C5_MinimalRanks ==
  (~HasCycle(edges) /\ NoneDegraded(nodes)) =>
    /\ \A n \in DOMAIN nodes : nodes[n].order # Null
    /\ \A e \in edges : nodes[e.target].order[1] > nodes[e.source].order[1]
    /\ \A n \in DOMAIN nodes :
         nodes[n].order[1] =
           IF Sources(n, edges) = {} THEN 0
           ELSE 1 + SetMax({nodes[m].order[1] : m \in Sources(n, edges)})

(* C6: in a graph with a cycle, every node on a cycle and every node with  *)
(* a path to one is unorderable, and every other node carries its layered  *)
(* Kahn rank.                                                              *)
C6_CyclicUnorderable ==
  (HasCycle(edges) /\ NoneDegraded(nodes)) =>
    \A n \in DOMAIN nodes :
      IF n \in Upstream(OnCycle(edges), edges)
      THEN nodes[n].order = Null
      ELSE nodes[n].order = Badge(computeRanks(nodes, edges)[n])

(* The step removes the edge that the connect gesture right before it      *)
(* proposed.                                                               *)
RemovesProposedEdge ==
  /\ hist.op = "onConnect"
  /\ hist'.op = "removeEdge"
  /\ hist'.edge[1].id = hist.edge[1].id

(* C7, as claimed: adding any proposed edge and then removing that edge    *)
(* yields the ranks the graph had before the addition.                     *)
C7_AddRemoveRoundTrip ==
  [][RemovesProposedEdge =>
       computeRanks(nodes', edges') = computeRanks(nodes, hist.before)]_vars

(* C7, amended: adding a proposed edge whose connection is not yet in the  *)
(* graph and then removing that edge yields the edge set, the order badges *)
(* and the computed ranks the graph had before the addition, also when the *)
(* target input port already had an incoming edge.                         *)
C7_NewEdgeRoundTrip ==
  [][(RemovesProposedEdge /\ ~connectionExists(hist.edge[1], hist.before)) =>
       /\ edges' = hist.before
       /\ \A n \in DOMAIN nodes : nodes'[n].order = nodes[n].order
       /\ computeRanks(nodes', edges') = computeRanks(nodes, hist.before)]_vars

(* C7 witness: a connect onto an occupied input port has just been undone  *)
C7_Witness ==
  /\ hist.op = "removeEdge"
  /\ hist.undo
  /\ \E e \in edges :
       e.target = hist.edge[1].target /\ e.targetHandle = hist.edge[1].targetHandle

(* C8: the result of an ingestion whose node has been removed changes      *)
(* nothing: the node set, every node's data, the edges and the components  *)
(* stay as they are, and the removed node is not created again.            *)
C8_LateResultNoOp ==
  [][\A p \in pending :
       (pending' = pending \ {p} /\ p.node \notin DOMAIN nodes) =>
         /\ nodes' = nodes
         /\ edges' = edges
         /\ ui' = ui]_vars

(* C8 witness: a result has arrived for a node that was removed *)
C8_Witness == hist.op = "lateResume" /\ hist.node \notin DOMAIN nodes

(* The call has ended with the reader's load event on a workbook *)
LoadedWorkbook ==
  /\ call.phase = "load"
  /\ call.file[1].bytes.kind = "workbook"

FoundSheets == call.file[1].bytes.workbook.SheetNames

(* C9: every call of parseExcelFile, whatever the file and the reader's    *)
(* event, produces exactly one result {filename, inputs, outputs, error}   *)
(* and no exception leaves it.                                             *)
C9_AlwaysOneResult ==
  call.phase \in ReaderEvents =>
    LET promise == call.promise[1]
    IN /\ promise.state = "fulfilled"
       /\ ~promise.threw
       /\ promise.resolveCalls = 1
       /\ DOMAIN promise.value[1] = {"filename", "inputs", "outputs", "error"}
       /\ promise.value[1].filename = call.file[1].name
       /\ promise.value[1].error = Null \/ Len(promise.value[1].error) = 1

(* C9 witness: XLSX.read has thrown on an unparsable file and the call has *)
(* still produced its result                                               *)
C9_Witness ==
  /\ call.phase = "load"
  /\ call.file[1].bytes.kind = "garbage"
  /\ call.promise[1].state = "fulfilled"
  /\ call.promise[1].value[1].error # Null

(* C10, as claimed: a workbook with the INPUTS sheet and no OUTPUTS sheet  *)
(* yields the message "Required sheet(s) not found: OUTPUTS. Sheets in     *)
(* this file: INPUTS."                                                     *)
C10_SheetsLiteralMessage ==
  (LoadedWorkbook /\ FoundSheets = <<"INPUTS">>) =>
    call.promise[1].value[1].error =
      Some("Required sheet(s) not found: OUTPUTS. Sheets in this file: INPUTS.")

(* The sheets present, comma-joined from the left *)
RECURSIVE CommaList(_)
CommaList(names) ==
  IF Len(names) = 1 THEN names[1]
  ELSE CommaList(SubSeq(names, 1, Len(names) - 1)) \o ", " \o names[Len(names)]

(* C10, amended: a workbook with the INPUTS sheet and no OUTPUTS sheet     *)
(* yields "Required sheet not found: OUTPUTS. Sheets in this file:         *)
(* INPUTS."; in general the message is "Required sheet", then "s" when     *)
(* both sheets are missing, then " not found: ", the missing sheets joined *)
(* by " and ", ". Sheets in this file: ", the sheets present comma-joined  *)
(* (or "(no sheets found)"), and ".".                                      *)
C10_MissingSheetMessage ==
  LET noInputs == "INPUTS" \notin Range(FoundSheets)
      noOutputs == "OUTPUTS" \notin Range(FoundSheets)
      present == IF FoundSheets = <<>> THEN "(no sheets found)" ELSE CommaList(FoundSheets)
      absent == IF noInputs /\ noOutputs THEN "s not found: INPUTS and OUTPUTS"
                ELSE IF noInputs THEN " not found: INPUTS"
                ELSE " not found: OUTPUTS"
  IN /\ (LoadedWorkbook /\ FoundSheets = <<"INPUTS">>) =>
          call.promise[1].value[1].error =
            Some("Required sheet not found: OUTPUTS. Sheets in this file: INPUTS.")
     /\ (LoadedWorkbook /\ (noInputs \/ noOutputs)) =>
          call.promise[1].value[1].error =
            Some("Required sheet" \o absent \o ". Sheets in this file: " \o present \o ".")

(* C10 witness: a workbook holding the INPUTS sheet alone has been read *)
C10_Witness ==
  /\ LoadedWorkbook
  /\ FoundSheets = <<"INPUTS">>
  /\ call.promise[1].value[1].error # Null

(* C11: no edge of the edge set goes from a node to itself: a connection   *)
(* whose source node is its target node is rejected and the edge set is    *)
(* left as it was.                                                         *)
C11_NoSelfLoop == \A e \in edges : e.source # e.target

(* C12: when a node's port list holds a name more than once, each          *)
(* occurrence is an endpoint of its own: different rows of a node's inputs *)
(* (outputs) carry different handles, so that edges attached to different  *)
(* occurrences can be told apart and coexist.                              *)
C12_OccurrencesDistinct ==
  \A n \in DOMAIN nodes :
    /\ \A i, j \in 1..Len(nodes[n].inputs) :
         i # j => InHandle(nodes[n].inputs[i]) # InHandle(nodes[n].inputs[j])
    /\ \A i, j \in 1..Len(nodes[n].outputs) :
         i # j => OutHandle(nodes[n].outputs[i]) # OutHandle(nodes[n].outputs[j])

(* C13: a step that sets the error of a node leaves that node and every    *)
(* node reachable from it along edges unorderable, and leaves the rank of  *)
(* every other node as it was.                                             *)
C13_ErrorDegradesDependents ==
  [][\A n \in DOMAIN nodes \cap DOMAIN nodes' :
       (DataError(nodes[n]) = Null /\ DataError(nodes'[n]) # Null) =>
         /\ \A m \in Downstream({n}, edges') \cap DOMAIN nodes' : nodes'[m].order = Null
         /\ \A m \in DOMAIN nodes' \ Downstream({n}, edges') :
              nodes'[m].order = nodes[m].order]_vars

(* C14: the dismiss action on a node with an error sets that node's error  *)
(* to null and leaves its label, inputs, outputs and order, every other    *)
(* node, the set of nodes and all edges as they were.                      *)
C14_DismissFrame ==
  [][\A id \in DOMAIN nodes :
       (hist'.op = "dismiss" /\ hist'.node = id /\ DataError(nodes[id]) # Null) =>
         /\ DOMAIN nodes' = DOMAIN nodes
         /\ nodes'[id].error = Null
         /\ nodes'[id].label = nodes[id].label
         /\ nodes'[id].inputs = nodes[id].inputs
         /\ nodes'[id].outputs = nodes[id].outputs
         /\ nodes'[id].order = nodes[id].order
         /\ \A m \in DOMAIN nodes \ {id} : nodes'[m] = nodes[m]
         /\ edges' = edges]_vars

(* An error has just been dismissed on a node that has ports, while        *)
(* another node still shows its own error.                                 *)
C14_Witness ==
  /\ hist.op = "dismiss"
  /\ hist.node \in DOMAIN nodes
  /\ nodes[hist.node].error = Null
  /\ Len(nodes[hist.node].inputs) > 0
  /\ \E m \in DOMAIN nodes \ {hist.node} : DataError(nodes[m]) # Null

(* C15: in every result of parseExcelFile, error is null exactly when the  *)
(* reader loaded the file, XLSX.read parsed it and both required sheets    *)
(* are among its sheets; and a result with an error has no inputs and no   *)
(* outputs.                                                                *)
C15_ErrorIffNotParsed ==
  call.phase \in ReaderEvents =>
    LET result == call.promise[1].value[1]
        parsed == /\ LoadedWorkbook
                  /\ "INPUTS" \in Range(FoundSheets)
                  /\ "OUTPUTS" \in Range(FoundSheets)
    IN /\ result.error = Null <=> parsed
       /\ result.error # Null => (result.inputs = <<>> /\ result.outputs = <<>>)

(* A workbook whose INPUTS sheet has variable names and whose OUTPUTS      *)
(* sheet is missing has been read: the result carries an error.            *)
C15_Witness ==
  /\ LoadedWorkbook
  /\ "INPUTS" \in Range(FoundSheets)
  /\ "OUTPUTS" \notin Range(FoundSheets)
  /\ call.file[1].bytes.workbook.Sheets["INPUTS"].hasColumn
  /\ Len(call.file[1].bytes.workbook.Sheets["INPUTS"].rows) > 0
  /\ call.promise[1].value[1].error # Null

(* The text of a cell between its first and its last non-blank piece *)
TrimmedCell(cell) ==
  LET solid == {i \in 1..Len(cell) : ~IsSpace(cell[i])}
      first == CHOOSE i \in solid : \A j \in solid : i <= j
      last == CHOOSE i \in solid : \A j \in solid : j <= i
  IN IF solid = {} THEN "" ELSE Join(SubSeq(cell, first, last), "")

(* The variable names a sheet declares: the k-th name is the trimmed       *)
(* variable_name value of the k-th row whose value is not blank.           *)
DeclaredNames(sheet) ==
  LET kept == {r \in 1..Len(sheet.rows) :
                 sheet.hasColumn /\ TrimmedCell(sheet.rows[r]) # ""}
      row(k) == CHOOSE r \in kept : Cardinality({q \in kept : q < r}) = k - 1
  IN [k \in 1..Cardinality(kept) |-> TrimmedCell(sheet.rows[row(k)])]

(* C16: a successful result's inputs (outputs) are the variable_name       *)
(* values of the rows of the INPUTS (OUTPUTS) sheet, trimmed, without the  *)
(* blank ones, in row order, repeated names kept.                          *)
C16_PortsAreVariableNames ==
  (call.phase \in ReaderEvents /\ call.promise[1].value[1].error = Null) =>
    LET result == call.promise[1].value[1]
        sheets == call.file[1].bytes.workbook.Sheets
    IN /\ result.inputs = DeclaredNames(sheets["INPUTS"])
       /\ result.outputs = DeclaredNames(sheets["OUTPUTS"])

(* A sheet with a padded name, a blank row and a repeated name was read *)
C16_Witness ==
  /\ LoadedWorkbook
  /\ call.promise[1].value[1].error = Null
  /\ call.promise[1].value[1].inputs = <<"rate", "cost", "rate">>
  /\ call.promise[1].value[1].outputs = <<>>

(* C17: once every ingestion started on a node has completed, the node     *)
(* shows the file of the latest drop that started one: its label is that   *)
(* file's name and its inputs and outputs are those of a result of         *)
(* parsing that file, also when an earlier ingestion completed last.       *)
C17_LatestDropWins ==
  \A n \in DOMAIN nodes :
    (lastDrop[n] # Null /\ ~\E p \in pending : p.node = n) =>
      /\ nodes[n].label = lastDrop[n][1].file.name
      /\ \E event \in ReaderEvents :
           LET result == parseExcelFile(lastDrop[n][1].file, event).value[1]
           IN /\ nodes[n].inputs = result.inputs
              /\ nodes[n].outputs = result.outputs

(* C18: a node's loading flag is true exactly while at least one ingestion *)
(* started by a drop on it has not completed.                              *)
C18_LoadingWhilePending ==
  \A n \in DOMAIN ui : ui[n].isLoading <=> \E p \in pending : p.node = n

(* C19: after any sequence of dragenter, dragleave and drop events on a    *)
(* node, isDragOver is true exactly when dragDepth >= 1; right after a     *)
(* drop on a node its dragDepth is 0 and its isDragOver is false.          *)
C19_DragOverIffDepth ==
  /\ \A n \in DOMAIN ui : ui[n].isDragOver <=> ui[n].dragDepth >= 1
  /\ (hist.op \in {"onDrop", "onDropRejected"} /\ hist.node \in DOMAIN ui) =>
       (ui[hist.node].dragDepth = 0 /\ ~ui[hist.node].isDragOver)

(* After a drop, a dragleave from a child element has just brought the     *)
(* counter of a node from 2 back to 1: the node is still highlighted.      *)
C19_Witness ==
  /\ hist.op = "onDragLeave"
  /\ drops > 0
  /\ ui[hist.node].dragDepth = 1
  /\ ui[hist.node].isDragOver

(* C20: a drop with no .xlsx/.xls file among its files sets the node's     *)
(* error to the file-type message and starts no ingestion; the node's      *)
(* label, inputs, outputs and order, its loading flag, every other node,   *)
(* the other components and all edges are as they were.                    *)
C20_RejectedDropFrame ==
  [][\A id \in DOMAIN nodes :
       (hist'.op = "onDropRejected" /\ hist'.node = id /\ drops' = drops + 1) =>
         /\ DOMAIN nodes' = DOMAIN nodes
         /\ nodes'[id].error = Some(FILE_TYPE_ERROR)
         /\ pending' = pending
         /\ ui'[id].isLoading = ui[id].isLoading
         /\ nodes'[id].label = nodes[id].label
         /\ nodes'[id].inputs = nodes[id].inputs
         /\ nodes'[id].outputs = nodes[id].outputs
         /\ nodes'[id].order = nodes[id].order
         /\ \A m \in DOMAIN nodes \ {id} : nodes'[m] = nodes[m] /\ ui'[m] = ui[m]
         /\ edges' = edges]_vars

(* A drop without an Excel file has just been rejected on a node that is   *)
(* not loading, while another drop's ingestion is pending elsewhere.       *)
C20_Witness ==
  /\ hist.op = "onDropRejected"
  /\ hist.node \in DOMAIN nodes
  /\ nodes[hist.node].error = Some(FILE_TYPE_ERROR)
  /\ ~ui[hist.node].isLoading
  /\ pending # {}

====
